---- MODULE Spec2Model ----
(***************************************************************************)
(* Model of the interview scheduler's availability engine and session     *)
(* state machine: SlotManager (slot_manager.py), SchedulerAgent's tools   *)
(* (scheduler_agent.py), EmailParser's slot validation (email_parser.py)  *)
(* and the HTTP handlers of server.py.                                    *)
(*                                                                         *)
(* Timestamps.  The code keeps every time as a string and parses it where *)
(* it needs an instant.  A string is modelled by the record TS(w,off,fmt): *)
(* its wall-clock reading w (minutes since 00:00 of day 0, a Monday), the *)
(* UTC offset off (minutes) it states, and its layout fmt:                 *)
(*    "Z"       YYYY-MM-DDTHH:MM:SSZ                                       *)
(*    "msZ"     YYYY-MM-DDTHH:MM:SS.000Z                                   *)
(*    "bare"    YYYY-MM-DDTHH:MM:SS                                        *)
(*    "space"   YYYY-MM-DD HH:MM:SS                                        *)
(*    "short"   YYYY-MM-DDTHH:MM                                           *)
(*    "offset"  YYYY-MM-DDTHH:MM:SS+HH:MM                                  *)
(*    "usZ"     YYYY-MM-DDTHH:MM:SS.ffffffZ, a reading of the clock        *)
(*    "garbage" text that is no timestamp                                  *)
(* Two different records are two different strings.                        *)
(***************************************************************************)
EXTENDS Integers, Sequences, FiniteSets, TLC

VARIABLES
    recruiter_availability, \* SlotManager.recruiter_availability: list of slot dicts
    session_state,          \* SchedulerAgent.session_state
    now,                    \* the wall clock, datetime.now(), in minutes
    last,                   \* history: the latest call, its result and outbound calls
    confirmed_for,          \* history: per candidate, the interval last confirmed for them
    frames                  \* per thread, the call it is in the middle of

vars == <<recruiter_availability, session_state, now, last, confirmed_for, frames>>

None == "None"

----------------------------------------------------------------------------
(* Bounds of the model *)

MaxTicks == 1      \* the clock is advanced this many times, two weeks at a time
MaxStore == 2      \* longest store SlotManager's methods are called on directly
MaxCandidates == 2 \* longest list of candidate slots find_intersection is given
MaxSeedDay == 6    \* the last day a SlotManager is constructed on

(* Program constants *)

Hour == 60         \* minutes in timedelta(hours=1)
WindowDays == 14
StartHour == 9
EndHour == 17
SlotMinutes == 60
QueryDays == 14
OfferCount == 5
RefreshDuration == 60

Day == 24 * Hour
TickStep == WindowDays * Day

----------------------------------------------------------------------------
(* Timestamp strings *)

TS(w, off, fmt) == [w |-> w, off |-> off, fmt |-> fmt]

Garbage == TS(0, 0, "garbage")

At(day, hour, minute) == day * Day + hour * Hour + minute

\* A value that is absent or empty (None, "")
Missing == TS(0, 0, "missing")

\* datetime.fromisoformat(s.replace('Z', '+00:00')) succeeds on every layout
\* above; on other text it raises ValueError, and so do the strptime fallbacks.
Parses(s) == s.fmt \notin {"garbage", "missing"}

\* A reading that takes a layout without offset as local time at UTC+01:00
InstantBareAsLocal(s) ==
    IF s.fmt \in {"bare", "space", "short"} THEN s.w - Hour ELSE s.w - s.off

\* The instant (minutes UTC) of a string that parses.  A naive layout carries
\* off = 0: pytz.UTC.localize reads it as UTC.
Instant(s) == s.w - s.off

\* datetime.isoformat() of an aware datetime: wall clock and +HH:MM offset
IsoFormat(w, off) == TS(w, off, "offset")

\* Python's str comparison on two timestamp strings.  The layouts agree up to
\* the date (10 characters); then comes the separator (' ' < 'T'), HH:MM, and
\* the rest: nothing (short) < ":00" < ":00+.." < ":00.000Z" < ":00Z" <
\* ":ss.ffffffZ" of a clock reading past the first second of its minute.
SepRank(s) == IF s.fmt = "space" THEN 0 ELSE 1

TailRank(s) ==
    CASE s.fmt = "short" -> 0
      [] s.fmt = "bare" -> 1
      [] s.fmt = "space" -> 1
      [] s.fmt = "offset" -> 2
      [] s.fmt = "msZ" -> 3
      [] s.fmt = "Z" -> 4
      [] s.fmt = "usZ" -> 5
      [] OTHER -> 6

LexKey(s) == <<s.w \div Day, SepRank(s), s.w % Day, TailRank(s)>>

RECURSIVE TupleLeq(_, _)
TupleLeq(a, b) ==
    IF a = <<>> THEN TRUE
    ELSE IF Head(a) < Head(b) THEN TRUE
    ELSE IF Head(a) > Head(b) THEN FALSE
    ELSE TupleLeq(Tail(a), Tail(b))

StrLeq(a, b) ==
    IF ~Parses(a) \/ ~Parses(b)
    THEN ~Parses(b)               \* text starting with a letter sorts after digits
    ELSE TupleLeq(LexKey(a), LexKey(b))

----------------------------------------------------------------------------
(* SlotManager *)

Slot(start, end, available, duration) ==
    [start |-> start, end |-> end, available |-> available, duration |-> duration]

Weekday(day) == day % 7     \* 0 = Monday ... 5 = Saturday, 6 = Sunday

HoursPerDay == EndHour - StartHour

\* _generate_default_availability with base_date = 00:00 of day `today`
DefaultBlock(today, k) ==
    LET day == today + ((k - 1) \div HoursPerDay)
        hour == StartHour + ((k - 1) % HoursPerDay)
        slot_start == At(day, hour, 0)
        slot_end == slot_start + Hour
    IN Slot(TS(slot_start, 0, "Z"), TS(slot_end, 0, "Z"), TRUE, SlotMinutes)

\* A skip that leaves out Sundays only
IsNotSundayBlock(s) == Weekday(s.start.w \div Day) < 6

IsWeekdayBlock(s) == Weekday(s.start.w \div Day) < 5

GenerateDefaultAvailability(today) ==
    SelectSeq([k \in 1..(WindowDays * HoursPerDay) |-> DefaultBlock(today, k)],
              IsWeekdayBlock)

\* get_available_slots() with both arguments defaulted from datetime.now()
InRange(slot, start_date, end_date) ==
    StrLeq(start_date, slot.start) /\ StrLeq(slot.start, end_date) /\ slot.available

\* get_available_slots(start_date, end_date) with both arguments given
GetAvailableSlotsBetween(av, start_date, end_date) ==
    LET Keep(slot) == InRange(slot, start_date, end_date)
    IN SelectSeq(av, Keep)

GetAvailableSlots(av, clock) ==
    GetAvailableSlotsBetween(av, TS(clock, 0, "usZ"),
                             TS(clock + QueryDays * Day, 0, "usZ"))

\* The test of one recruiter slot against one candidate instant
\* (find_intersection, lines 123-140); a slot that does not parse is skipped.
Covers(slot, c) ==
    /\ slot.available
    /\ Parses(slot.start) /\ Parses(slot.end)
    /\ Instant(slot.start) <= c /\ c < Instant(slot.end)

\* A scan that does not stop at its first hit and keeps the last one
LastFit(av, c) ==
    LET hits == {i \in 1..Len(av) : Covers(av[i], c)}
    IN IF hits = {} THEN 0 ELSE CHOOSE i \in hits : \A j \in hits : i >= j

\* Index of the first slot of the store that covers c (the loop breaks there);
\* 0 when none does.
FirstFit(av, c) ==
    LET hits == {i \in 1..Len(av) : Covers(av[i], c)}
    IN IF hits = {} THEN 0 ELSE CHOOSE i \in hits : \A j \in hits : i <= j

\* One entry of find_intersection's result.  recruiter_slot is the store's own
\* dict, not a copy: ix is its place in the store while the store still
\* holds that object.
Intersection(candidate_slot, av, i) ==
    [candidate_slot |-> candidate_slot,
     recruiter_slot |-> av[i],
     ix |-> i,
     intersection_start |-> IsoFormat(candidate_slot.w, candidate_slot.off),
     intersection_end |-> IsoFormat(av[i].end.w, av[i].end.off),
     duration |-> av[i].duration]

\* A matching in which an interval, once matched, is not offered to the
\* proposed slots that follow
RECURSIVE FindIntersectionConsuming(_, _)
FindIntersectionConsuming(candidate_slots, av) ==
    IF candidate_slots = <<>> THEN <<>>
    ELSE LET c == Head(candidate_slots)
         IN IF ~Parses(c) THEN FindIntersectionConsuming(Tail(candidate_slots), av)
            ELSE LET i == FirstFit(av, Instant(c))
                 IN IF i = 0 THEN FindIntersectionConsuming(Tail(candidate_slots), av)
                    ELSE <<Intersection(c, av, i)>> \o
                         FindIntersectionConsuming(Tail(candidate_slots),
                                                   [av EXCEPT ![i].available = FALSE])

\* A matching that gives up the batch at the first slot it cannot parse
RECURSIVE FindIntersectionAborting(_, _)
FindIntersectionAborting(candidate_slots, av) ==
    IF candidate_slots = <<>> THEN <<>>
    ELSE LET c == Head(candidate_slots)
         IN IF ~Parses(c) THEN <<>>
            ELSE LET i == FirstFit(av, Instant(c))
                     rest == FindIntersectionAborting(Tail(candidate_slots), av)
                 IN IF i = 0 THEN rest
                    ELSE <<Intersection(c, av, i)>> \o rest

RECURSIVE FindIntersection(_, _)
FindIntersection(candidate_slots, av) ==
    IF candidate_slots = <<>> THEN <<>>
    ELSE LET c == Head(candidate_slots)
             rest == FindIntersection(Tail(candidate_slots), av)
         IN IF ~Parses(c) THEN rest
            ELSE LET i == FirstFit(av, Instant(c))
                 IN IF i = 0 THEN rest
                    ELSE <<Intersection(c, av, i)>> \o rest

\* A selection that takes the match found last
GetBestMatchLast(intersections) ==
    IF intersections = <<>> THEN <<>> ELSE <<intersections[Len(intersections)]>>

\* get_best_match: None (the empty option) or the first intersection
GetBestMatch(intersections) ==
    IF intersections = <<>> THEN <<>> ELSE <<intersections[1]>>

\* Index of the slot mark_slot_booked changes: the first whose start and end
\* strings equal the arguments; 0 when there is none.
BookTarget(av, slot_start, slot_end) ==
    LET hits == {i \in 1..Len(av) : av[i].start = slot_start /\ av[i].end = slot_end}
    IN IF hits = {} THEN 0 ELSE CHOOSE i \in hits : \A j \in hits : i <= j

\* A booking that does not stop at the first slot it finds
MarkSlotBookedAll(av, slot_start, slot_end) ==
    [i \in 1..Len(av) |->
        IF av[i].start = slot_start /\ av[i].end = slot_end
        THEN [av[i] EXCEPT !.available = FALSE]
        ELSE av[i]]

\* A booking that flips the flag instead of clearing it
MarkSlotBookedToggle(av, slot_start, slot_end) ==
    LET i == BookTarget(av, slot_start, slot_end)
    IN IF i = 0 THEN av ELSE [av EXCEPT ![i].available = ~av[i].available]

MarkSlotBooked(av, slot_start, slot_end) ==
    LET i == BookTarget(av, slot_start, slot_end)
    IN IF i = 0 THEN av ELSE [av EXCEPT ![i].available = FALSE]

\* mark_slot_booked has no return statement
MarkSlotBookedReturn == None

----------------------------------------------------------------------------
(* EmailParser *)

\* _validate_slots: a slot that no accepted format parses is left out
ValidSlot(s) == Parses(s)

ValidateSlots(slots) == SelectSeq(slots, ValidSlot)

----------------------------------------------------------------------------
(* BackendClient *)

\* A /recruiterSlots answer.  kind "error" is a RequestException, which
\* fetch_recruiter_slots turns into {"error": ...}; kind "malformed" is a body
\* the code cannot walk ("slots" that is no list, an entry that is no
\* object): an exception other than RequestException leaves the refresh;
\* kind "ok" carries the "slots" list, each entry with startTime and endTime
\* (Missing when absent).
Entry(startTime, endTime) == [startTime |-> startTime, endTime |-> endTime]

Answer(kind, slots) == [kind |-> kind, slots |-> slots]

Raises(resp) == resp.kind = "malformed"

\* data.get("slots", []) of the answer
FetchedSlots(resp) == IF resp.kind = "ok" THEN resp.slots ELSE <<>>

----------------------------------------------------------------------------
(* SchedulerAgent.  A tool is an operator from a run to a run: a run m holds   *)
(* the store (av), the session (ss) and what the call has done so far: the     *)
(* stages it assigned (path), what each refresh fetched (fetched), its         *)
(* outbound backend calls (out) and what the latest tool returned (ret).       *)
(* conversation_history, which the code only ever appends to and never reads,  *)
(* is left out.                                                                *)

Stages == {"initialized", "session_started", "initial_email_sent",
           "candidate_response_parsed", "slot_confirmed", "no_intersection"}

InitialSession ==
    [recruiter_email |-> None,
     candidate_email |-> None,
     current_stage |-> "initialized",
     proposed_slots |-> <<>>,
     confirmed_slot |-> <<>>]         \* <<>> is None, <<m>> is the dict m

Run(av, ss) ==
    [av |-> av, ss |-> ss, path |-> <<>>, fetched |-> <<>>, out |-> <<>>, ret |-> None]

SetStage(m, stage) ==
    [m EXCEPT !.ss.current_stage = stage, !.path = Append(m.path, stage)]

Returning(m, ret) == [m EXCEPT !.ret = ret]

\* A call to the backend; result is how it ended: "ok", or "error" when
\* requests raised a RequestException, which BackendClient turns into
\* {"error": ...}
Outbound(kind, to, slots, start, end) ==
    [kind |-> kind, to |-> to, slots |-> slots, start |-> start, end |-> end,
     result |-> "ok"]

Ended(call, result) == [call EXCEPT !.result = result]

Calling(m, call) == [m EXCEPT !.out = Append(m.out, call)]

\* The mapped list of _refresh_recruiter_slots_from_backend (lines 117-129)
MappedEntry(e) ==
    Slot(e.startTime, e.endTime, TRUE, RefreshDuration)

HasBothTimes(e) == e.startTime # Missing /\ e.endTime # Missing

MapSlots(resp) ==
    LET kept == SelectSeq(FetchedSlots(resp), HasBothTimes)
    IN [i \in 1..Len(kept) |-> MappedEntry(kept[i])]

\* A refresh that adds the mapped list to the store it finds
RefreshedAvailabilityMerging(av, mapped) == av \o mapped

\* A refresh that assigns the mapped list without the test of line 130
RefreshedAvailabilityUnguarded(av, mapped) == mapped

\* The store after lines 130-134: replaced only by a non-empty mapped list
RefreshedAvailability(av, mapped) ==
    IF mapped # <<>> THEN mapped ELSE av

\* A confirmed slot keeps its recruiter_slot dict when the store is replaced
\* by a new list of new dicts; it is then no object of the store any more.
Detached(confirmed_slot) ==
    [i \in 1..Len(confirmed_slot) |-> [confirmed_slot[i] EXCEPT !.ix = 0]]

\* _refresh_recruiter_slots_from_backend on an answer it can read
RefreshRecruiterSlots(m, resp) ==
    LET mapped == MapSlots(resp)
    IN [m EXCEPT !.av = RefreshedAvailability(m.av, mapped),
                 !.ss.confirmed_slot =
                     IF mapped # <<>> THEN Detached(m.ss.confirmed_slot)
                                      ELSE m.ss.confirmed_slot,
                 !.fetched = Append(m.fetched, Len(mapped))]

\* The refresh raised before line 130; the tool's except clause returns the
\* error text.  -1 in fetched records the refresh that fetched nothing at all.
RefreshFailed(m) ==
    Returning([m EXCEPT !.fetched = Append(m.fetched, -1)], "error")

FirstN(seq, n) == SubSeq(seq, 1, IF Len(seq) < n THEN Len(seq) ELSE n)

StartsOf(slots) == [i \in 1..Len(slots) |-> slots[i].start]

\* `fetched if fetched else self.slot_manager.get_available_slots()`, cut to
\* the first five
SlotsToOffer(m, resp, clock) ==
    LET fetched == MapSlots(resp)
        slots == IF fetched # <<>> THEN fetched
                 ELSE GetAvailableSlots(RefreshedAvailability(m.av, fetched), clock)
    IN FirstN(slots, OfferCount)

\* The three assignments that start a session (server.py lines 33-35,
\* scheduler_agent.py lines 140-142)
SessionStarted(m, recruiter_email, candidate_email) ==
    SetStage([m EXCEPT !.ss.recruiter_email = recruiter_email,
                       !.ss.candidate_email = candidate_email],
             "session_started")

StartSessionTool(m, recruiter_email, candidate_email) ==
    Returning(Calling(SessionStarted(m, recruiter_email, candidate_email),
                      Outbound("start_session", candidate_email, <<>>, Missing, Missing)),
              "started")

SendInitialEmailTool(m, resp, clock) ==
    IF Raises(resp) THEN RefreshFailed(m)
    ELSE LET m1 == RefreshRecruiterSlots(m, resp)
             mail == Outbound("initial_email", m1.ss.candidate_email,
                              StartsOf(SlotsToOffer(m, resp, clock)), Missing, Missing)
         IN Returning(SetStage(Calling(m1, mail), "initial_email_sent"), "sent")

ParseCandidateResponseTool(m, llm_slots) ==
    Returning(SetStage([m EXCEPT !.ss.proposed_slots = ValidateSlots(llm_slots)],
                       "candidate_response_parsed"),
              "parsed")

\* The outcome of lines 221-236 for the refreshed run m1
IntersectionOutcome(m1) ==
    LET slots == m1.ss.proposed_slots
        best_match == GetBestMatch(FindIntersection(slots, m1.av))
    IN IF slots = <<>> THEN Returning(m1, "no_candidate_slots")
       ELSE IF best_match # <<>>
            THEN Returning(SetStage([m1 EXCEPT !.ss.confirmed_slot = best_match],
                                    "slot_confirmed"),
                           "found")
            ELSE Returning(SetStage(m1, "no_intersection"), "no_matching_slots")

FindSlotIntersectionTool(m, resp) ==
    IF Raises(resp) THEN RefreshFailed(m)
    ELSE IntersectionOutcome(RefreshRecruiterSlots(m, resp))

\* The tool ignores the result of send_email: it answers "sent" either way
SendConfirmationEmailTool(m, result) ==
    IF m.ss.confirmed_slot = <<>> THEN Returning(m, "no_confirmed_slot")
    ELSE Returning(Calling(m,
             Ended(Outbound("confirmation_email", m.ss.candidate_email, <<>>,
                            m.ss.confirmed_slot[1].intersection_start, Missing),
                   result)),
           "sent")

\* A calendar tool that undoes the confirmation when the backend call fails
CreateCalendarEventToolRollingBack(m, result) ==
    IF m.ss.confirmed_slot = <<>> THEN Returning(m, "no_confirmed_slot")
    ELSE LET call == Ended(Outbound("calendar_event", None, <<>>,
                                    m.ss.confirmed_slot[1].intersection_start,
                                    m.ss.confirmed_slot[1].intersection_end),
                           result)
         IN IF result = "ok" THEN Returning(Calling(m, call), "created")
            ELSE Returning(Calling(SetStage([m EXCEPT !.ss.confirmed_slot = <<>>],
                                            "no_intersection"),
                                   call),
                           "error")

\* The tool ignores the result of create_calendar_event: it answers "created"
\* either way and assigns nothing of the session
CreateCalendarEventTool(m, result) ==
    IF m.ss.confirmed_slot = <<>> THEN Returning(m, "no_confirmed_slot")
    ELSE Returning(Calling(m,
             Ended(Outbound("calendar_event", None, <<>>,
                            m.ss.confirmed_slot[1].intersection_start,
                            m.ss.confirmed_slot[1].intersection_end),
                   result)),
           "created")

SendFollowUpEmailTool(m, resp, clock) ==
    IF Raises(resp) THEN RefreshFailed(m)
    ELSE LET m1 == RefreshRecruiterSlots(m, resp)
             mail == Outbound("follow_up_email", m1.ss.candidate_email,
                              StartsOf(SlotsToOffer(m, resp, clock)), Missing, Missing)
         IN Returning(Calling(m1, mail), "sent")

\* _get_session_status_tool returns the status as JSON text
GetSessionStatusTool(m) == Returning(m, "status_json")

----------------------------------------------------------------------------
(* Inputs *)

Recruiter == "recruiter@company.com"
Candidates == {"ann@example.com", "bob@example.com"}

\* The day the process is constructed on (a Monday), at 08:05
Todays == {0}
ConstructedAt(today) == At(today, 8, 5)

\* Times a candidate proposes, on day 7 (the Monday after day 0): 09:30,
\* 10:30 and 18:00 (after hours)
HalfPastNine == TS(At(7, 9, 30), 0, "Z")
HalfPastTen == TS(At(7, 10, 30), 0, "Z")
Evening == TS(At(7, 18, 0), 0, "Z")

\* What the LLM extracts from an email: nothing, one time, text no format
\* reads, two times
LlmOutputs ==
    {<<>>, <<HalfPastNine>>, <<Evening>>, <<Garbage>>,
     <<HalfPastTen, HalfPastNine>>}

\* Entries the backend answers with: 09:00-10:00 and 10:00-11:00 of day 7 as
\* JavaScript prints them, and an entry without endTime
Nine == Entry(TS(At(7, 9, 0), 0, "msZ"), TS(At(7, 10, 0), 0, "msZ"))
Ten == Entry(TS(At(7, 10, 0), 0, "msZ"), TS(At(7, 11, 0), 0, "msZ"))
NoEnd == Entry(TS(At(7, 9, 0), 0, "msZ"), Missing)

\* What /recruiterSlots answers: a failed request, a body that cannot be
\* walked, no slot, one slot, only an entry that lacks its endTime, a slot
\* after such an entry, two slots
Responses ==
    {Answer("error", <<>>),
     Answer("malformed", <<>>),
     Answer("ok", <<>>),
     Answer("ok", <<Nine>>),
     Answer("ok", <<NoEnd>>),
     Answer("ok", <<NoEnd, Ten>>),
     Answer("ok", <<Ten, Nine>>)}

\* The answers the server is driven with: one of each outcome of a refresh.
\* A failed request, an empty list and a list without a usable entry all map
\* to no slot and leave the same state; the failed request stands for them.
ServerResponses ==
    {resp \in Responses : resp.kind = "ok" => MapSlots(resp) # <<>>}

\* How a call to /sendEmail or /createEvent ends
CallResults == {"ok", "error"}

\* Stores SlotManager's methods are called on.  Their slots: 09:00-10:00 of
\* day 7 and 09:00-11:00 as JavaScript prints it (it overlaps the others),
\* each free or booked, 10:00-11:00, and a slot whose start no format reads
SeqsUpTo(S, n) == UNION {[1..k -> S] : k \in 0..n}

StoreIntervals ==
    {<<TS(At(7, 9, 0), 0, "Z"), TS(At(7, 10, 0), 0, "Z")>>,
     <<TS(At(7, 9, 0), 0, "msZ"), TS(At(7, 11, 0), 0, "msZ")>>}

StoreSlots ==
    {Slot(i[1], i[2], free, SlotMinutes) : i \in StoreIntervals, free \in BOOLEAN}
        \cup {Slot(TS(At(7, 10, 0), 0, "Z"), TS(At(7, 11, 0), 0, "Z"), TRUE, SlotMinutes),
              Slot(Garbage, TS(At(7, 10, 0), 0, "Z"), TRUE, SlotMinutes)}

Stores == SeqsUpTo(StoreSlots, MaxStore) \ {<<>>}

\* Candidate slots find_intersection is given: 09:30 of day 7 in four
\* layouts (the last states 10:30 at UTC+01:00), 10:00 (where the first
\* interval ends and the next starts), 10:30, and text no format reads
CandidateTimes ==
    {TS(At(7, 9, 30), 0, "Z"), TS(At(7, 9, 30), 0, "msZ"), TS(At(7, 9, 30), 0, "bare"),
     TS(At(7, 10, 30), Hour, "offset"),
     TS(At(7, 10, 0), 0, "Z"), TS(At(7, 10, 30), 0, "Z"),
     Garbage}

CandidateLists == SeqsUpTo(CandidateTimes, MaxCandidates)

\* Bounds get_available_slots is given: 09:00 and 10:00 of day 7 in three
\* layouts each
QueryBounds ==
    {TS(At(7, h, 0), 0, fmt) : h \in {9, 10}, fmt \in {"Z", "msZ", "bare"}}

\* (start, end) pairs mark_slot_booked is called with
BookArgs ==
    {<<TS(At(7, 9, 0), 0, "Z"), TS(At(7, 10, 0), 0, "Z")>>,
     <<TS(At(7, 9, 0), 0, "msZ"), TS(At(7, 10, 0), 0, "msZ")>>}

----------------------------------------------------------------------------
(* State machine *)

\* server.py's handlers are plain functions: the server runs each request in
\* a thread of its pool, and the threads share the one agent of line 17.
Threads == {"a", "b"}

\* A thread's call in progress: where it is (pc), what it was called with
\* (args), the list object its loop walks (held) and the place in it (i),
\* and what it has collected (acc).  history: the store as the call found
\* it (began) and the stores assigned while it ran (installed).
Frame(pc, args, held, i, acc, began, installed) ==
    [pc |-> pc, args |-> args, held |-> held, i |-> i, acc |-> acc,
     began |-> began, installed |-> installed]

Idle == Frame("idle", <<>>, <<>>, 0, <<>>, <<>>, {})

Init ==
    \E today \in Todays :
        /\ now = ConstructedAt(today)
        /\ recruiter_availability = GenerateDefaultAvailability(today)
        /\ session_state = InitialSession
        /\ last = [op |-> "init", ret |-> None, args |-> <<>>, found |-> <<>>,
                   path |-> <<>>, fetched |-> <<>>, out |-> <<>>]
        /\ confirmed_for = [c \in Candidates |-> <<>>]
        /\ frames = [t \in Threads |-> Idle]

Here == Run(recruiter_availability, session_state)

\* history: the run confirmed a slot for the session's candidate
Confirms(m) ==
    /\ \E i \in 1..Len(m.path) : m.path[i] = "slot_confirmed"
    /\ m.ss.candidate_email \in Candidates

ConfirmedFor(m) ==
    IF Confirms(m)
    THEN [confirmed_for EXCEPT ![m.ss.candidate_email] =
              <<m.ss.confirmed_slot[1].recruiter_slot.start,
                m.ss.confirmed_slot[1].recruiter_slot.end>>]
    ELSE confirmed_for

\* The state after a call op that answered ret and left the run m
Outcome(op, ret, m) ==
    /\ recruiter_availability' = m.av
    /\ session_state' = m.ss
    /\ last' = [op |-> op, ret |-> ret, args |-> <<>>, found |-> <<>>,
                path |-> m.path, fetched |-> m.fetched, out |-> m.out]
    /\ UNCHANGED now

\* A call that runs from its first line to its last with no other thread
\* running in between
Commit(op, ret, m) ==
    /\ Outcome(op, ret, m)
    /\ UNCHANGED frames

\* A tool called on its own answers what it returns
CommitTool(op, m) ==
    /\ Commit(op, m.ret, m)
    /\ UNCHANGED confirmed_for

(* The agent's tools, called one at a time *)

StartSession(candidate_email) ==
    CommitTool("start_session", StartSessionTool(Here, Recruiter, candidate_email))

SendInitialEmail(resp) ==
    CommitTool("send_initial_email", SendInitialEmailTool(Here, resp, now))

ParseCandidateResponse(llm_slots) ==
    CommitTool("parse_candidate_response", ParseCandidateResponseTool(Here, llm_slots))

FindSlotIntersection(resp) ==
    CommitTool("find_slot_intersection", FindSlotIntersectionTool(Here, resp))

SendConfirmationEmail(result) ==
    CommitTool("send_confirmation_email", SendConfirmationEmailTool(Here, result))

CreateCalendarEvent(result) ==
    CommitTool("create_calendar_event", CreateCalendarEventTool(Here, result))

SendFollowUpEmail(resp) ==
    CommitTool("send_follow_up_email", SendFollowUpEmailTool(Here, resp, now))

GetSessionStatus ==
    CommitTool("get_session_status", GetSessionStatusTool(Here))

(* server.py *)

KickoffRun(m, candidate_email, resp, clock) ==
    SendInitialEmailTool(SessionStarted(m, Recruiter, candidate_email), resp, clock)

Kickoff(candidate_email, resp) ==
    /\ Commit("kickoff", "kickoff_started", KickoffRun(Here, candidate_email, resp, now))
    /\ UNCHANGED confirmed_for

\* ingest_email up to the test of line 52
IngestEvaluated(m, llm_slots, resp) ==
    FindSlotIntersectionTool(ParseCandidateResponseTool(m, llm_slots), resp)

IngestConfirmed(m2) == m2.ss.confirmed_slot # <<>>

\* lines 53-57, and lines 59-61 with the follow-up's own refresh answer
IngestConfirmedBranch(m2) ==
    \E mailed, created \in CallResults :
        LET m == CreateCalendarEventTool(SendConfirmationEmailTool(m2, mailed), created)
        IN /\ Commit("ingest_email", "confirmed", m)
           /\ confirmed_for' = ConfirmedFor(m)

IngestFollowUpBranch(m2) ==
    \E resp2 \in ServerResponses :
        LET m == SendFollowUpEmailTool(m2, resp2, now)
        IN /\ Commit("ingest_email", "no_intersection", m)
           /\ confirmed_for' = ConfirmedFor(m)

IngestEmail(llm_slots, resp) ==
    LET m2 == IngestEvaluated(Here, llm_slots, resp)
    IN IF IngestConfirmed(m2)
       THEN IngestConfirmedBranch(m2)
       ELSE IngestFollowUpBranch(m2)

\* GET /status answers get_session_state()
Status ==
    /\ Commit("status", "session_state", Here)
    /\ UNCHANGED confirmed_for

(* SlotManager.mark_slot_booked, called on the store directly *)

\* The booked dict is the confirmed slot's recruiter_slot when that is the
\* store's object at the booked place.
BookedAlias(confirmed_slot, i) ==
    [k \in 1..Len(confirmed_slot) |->
        IF i # 0 /\ confirmed_slot[k].ix = i
        THEN [confirmed_slot[k] EXCEPT !.recruiter_slot.available = FALSE]
        ELSE confirmed_slot[k]]

\* history: the slot the call found, as it was before the call (<<>>: none)
FoundSlot(av, slot_start, slot_end) ==
    IF BookTarget(av, slot_start, slot_end) = 0 THEN <<>>
    ELSE <<av[BookTarget(av, slot_start, slot_end)]>>

BookSlot(slot_start, slot_end) ==
    /\ recruiter_availability' =
           MarkSlotBooked(recruiter_availability, slot_start, slot_end)
    /\ session_state' =
           [session_state EXCEPT !.confirmed_slot =
               BookedAlias(@, BookTarget(recruiter_availability, slot_start, slot_end))]
    /\ last' = [op |-> "mark_slot_booked", ret |-> MarkSlotBookedReturn,
                args |-> <<slot_start, slot_end>>,
                found |-> FoundSlot(recruiter_availability, slot_start, slot_end),
                path |-> <<>>, fetched |-> <<>>, out |-> <<>>]
    /\ UNCHANGED <<now, confirmed_for, frames>>

(* SlotManager's other methods, called on the store directly.  They are     *)
(* called on a store as it was constructed or as a booking left it.         *)

CalledLeaving(op, args, found, av) ==
    /\ last.op \in {"init", "mark_slot_booked"}
    /\ last' = [op |-> op, ret |-> None, args |-> args, found |-> found,
                path |-> <<>>, fetched |-> <<>>, out |-> <<>>]
    /\ recruiter_availability' = av
    /\ UNCHANGED <<session_state, now, confirmed_for, frames>>

Called(op, args, found) == CalledLeaving(op, args, found, recruiter_availability)

\* A matching that takes the intervals it matched
StoreAfterMatchingBooked(intersections, av) ==
    [i \in 1..Len(av) |->
        IF \E k \in 1..Len(intersections) : intersections[k].ix = i
        THEN [av[i] EXCEPT !.available = FALSE]
        ELSE av[i]]

\* The store after find_intersection: lines 122-149 read the keys of the
\* store's dicts and put the matched dict itself in the result; they assign
\* to no key and to no place of the list
StoreAfterMatching(intersections, av) == av

FindIntersectionCall(candidate_slots) ==
    LET intersections == FindIntersection(candidate_slots, recruiter_availability)
    IN CalledLeaving("find_intersection", candidate_slots, intersections,
                     StoreAfterMatching(intersections, recruiter_availability))

\* get_best_match(find_intersection(candidate_slots)), as line 227-228 call it
GetBestMatchCall(candidate_slots) ==
    LET intersections == FindIntersection(candidate_slots, recruiter_availability)
    IN CalledLeaving("get_best_match", candidate_slots, GetBestMatch(intersections),
                     StoreAfterMatching(intersections, recruiter_availability))

GetAvailableSlotsCall(start_date, end_date) ==
    Called("get_available_slots", <<start_date, end_date>>,
           GetAvailableSlotsBetween(recruiter_availability, start_date, end_date))

\* _refresh_recruiter_slots_from_backend called on its own; it returns the
\* mapped list, or raises on a body it cannot walk
RefreshCall(resp) ==
    LET m == IF Raises(resp) THEN RefreshFailed(Here)
             ELSE RefreshRecruiterSlots(Here, resp)
    IN /\ recruiter_availability' = m.av
       /\ session_state' = m.ss
       /\ last' = [op |-> "refresh_recruiter_slots", ret |-> m.ret, args |-> <<resp>>,
                   found |-> IF Raises(resp) THEN <<>> ELSE MapSlots(resp),
                   path |-> m.path, fetched |-> m.fetched, out |-> m.out]
       /\ UNCHANGED <<now, confirmed_for, frames>>

(* SchedulerAgent.get_session_state, called in the process (main.py does),  *)
(* and what its caller can do with the dict it gets.  The dict is            *)
(* session_state.copy(), a shallow copy: its keys are the caller's own, the  *)
(* list under "proposed_slots" and the dict under "confirmed_slot" are the   *)
(* session's own objects.  The caller acts on the dict right after the call. *)

Snapshot(op, snapshot) ==
    last' = [op |-> op, ret |-> None, args |-> <<>>, found |-> <<snapshot>>,
             path |-> <<>>, fetched |-> <<>>, out |-> <<>>]

HoldsSnapshot ==
    last.op \in {"get_session_state", "snapshot_key_assigned", "snapshot_list_cleared"}

GetSessionState ==
    /\ Snapshot("get_session_state", session_state)
    /\ UNCHANGED <<recruiter_availability, session_state, now, confirmed_for, frames>>

\* snapshot["current_stage"] = stage
SnapshotKeyAssigned(stage) ==
    /\ HoldsSnapshot
    /\ Snapshot("snapshot_key_assigned", [last.found[1] EXCEPT !.current_stage = stage])
    /\ UNCHANGED <<recruiter_availability, session_state, now, confirmed_for, frames>>

\* snapshot["proposed_slots"].clear()
SnapshotListCleared ==
    /\ HoldsSnapshot
    /\ Snapshot("snapshot_list_cleared", [last.found[1] EXCEPT !.proposed_slots = <<>>])
    /\ session_state' = [session_state EXCEPT !.proposed_slots = <<>>]
    /\ UNCHANGED <<recruiter_availability, now, confirmed_for, frames>>

(* Time passes *)

Tick ==
    /\ now \div TickStep < MaxTicks
    /\ now' = now + TickStep
    /\ UNCHANGED <<recruiter_availability, session_state, last, confirmed_for, frames>>

\* The server: the three endpoints of server.py, and time
Next ==
    \/ \E c \in Candidates, resp \in ServerResponses : Kickoff(c, resp)
    \/ \E llm \in LlmOutputs, resp \in ServerResponses : IngestEmail(llm, resp)
    \/ Status
    \/ Tick

Spec == Init /\ [][Next]_vars

\* The agent: its tools called in any order (the LangChain agent of
\* run_scheduling_workflow picks them) and the store's booking call, within
\* the two weeks the default availability covers
NextAgent ==
    \/ \E c \in Candidates : StartSession(c)
    \/ \E resp \in Responses : SendInitialEmail(resp)
    \/ \E llm \in LlmOutputs : ParseCandidateResponse(llm)
    \/ \E resp \in Responses : FindSlotIntersection(resp)
    \/ \E result \in CallResults : SendConfirmationEmail(result)
    \/ \E result \in CallResults : CreateCalendarEvent(result)
    \/ \E resp \in Responses : SendFollowUpEmail(resp)
    \/ GetSessionStatus
    \/ \E args \in BookArgs : BookSlot(args[1], args[2])

SpecAgent == Init /\ [][NextAgent]_vars

\* A caller in the process, as main.py is: it runs tools and reads the session
NextCaller ==
    \/ \E c \in Candidates : StartSession(c)
    \/ \E llm \in LlmOutputs : ParseCandidateResponse(llm)
    \/ \E resp \in Responses : FindSlotIntersection(resp)
    \/ GetSessionState
    \/ \E stage \in Stages : SnapshotKeyAssigned(stage)
    \/ SnapshotListCleared

SpecCaller == Init /\ [][NextCaller]_vars

\* The construction of SlotManager on any day of the week at any hour
Construct ==
    /\ recruiter_availability' = GenerateDefaultAvailability(now \div Day)
    /\ last' = [op |-> "construct", ret |-> None, args |-> <<now \div Day>>,
                found |-> <<>>, path |-> <<>>, fetched |-> <<>>, out |-> <<>>]
    /\ UNCHANGED <<session_state, now, confirmed_for, frames>>

HourPasses ==
    /\ now + Hour < (MaxSeedDay + 1) * Day
    /\ now' = now + Hour
    /\ UNCHANGED <<recruiter_availability, session_state, last, confirmed_for, frames>>

NextSeed == Construct \/ HourPasses

SpecSeed == Init /\ [][NextSeed]_vars

\* The store over its life: built on some day, replaced by refreshes, its
\* slots booked
NextStore ==
    \/ Construct
    \/ HourPasses
    \/ \E resp \in Responses : RefreshCall(resp)
    \/ \E args \in BookArgs : BookSlot(args[1], args[2])

SpecStore == Init /\ [][NextStore]_vars

\* The slot manager on its own: a store a refresh may have put in place, its
\* methods called on it, and the agent's refresh of it
InitSlots ==
    /\ now = ConstructedAt(0)
    /\ recruiter_availability \in Stores
    /\ session_state = InitialSession
    /\ last = [op |-> "init", ret |-> None, args |-> <<>>, found |-> <<>>,
               path |-> <<>>, fetched |-> <<>>, out |-> <<>>]
    /\ confirmed_for = [c \in Candidates |-> <<>>]
    /\ frames = [t \in Threads |-> Idle]

NextSlots ==
    \/ \E candidate_slots \in CandidateLists : FindIntersectionCall(candidate_slots)
    \/ \E candidate_slots \in CandidateLists : GetBestMatchCall(candidate_slots)
    \/ \E start_date, end_date \in QueryBounds : GetAvailableSlotsCall(start_date, end_date)
    \/ \E args \in BookArgs : BookSlot(args[1], args[2])
    \/ \E resp \in Responses : RefreshCall(resp)

SpecSlots == InitSlots /\ [][NextSlots]_vars

(* SlotManager's loops taken one iteration at a time, while another thread   *)
(* runs the refresh.  Python switches threads between bytecodes: the       *)
(* assignment of line 131 is one, an iteration of a loop is many.            *)

\* The thread that reads the store; the refresh runs in another
Reader == "a"

Reading == frames[Reader].pc \in {"get_available_slots", "find_intersection"}

\* A refresh that rewrites the list the store is bound to, which is the list
\* a loop in progress walks
HeldAfterInPlaceReplace(held, mapped) == IF mapped # <<>> THEN mapped ELSE held

\* The list a loop in progress walks, after line 131 ran in another thread:
\* the assignment binds the attribute to the new list, and the list that
\* `for slot in self.recruiter_availability` took before it is as it was
HeldAfterReplace(held, mapped) == held

\* The thread's call starts
Begins(pc, args, held) ==
    /\ frames[Reader].pc = "idle"
    /\ frames' = [frames EXCEPT ![Reader] =
                      Frame(pc, args, held, 1, <<>>, recruiter_availability, {})]
    /\ UNCHANGED <<recruiter_availability, session_state, now, last, confirmed_for>>

\* One iteration: the loop's collection grows by what the iteration found
Iterates(pc, more) ==
    /\ frames[Reader].pc = pc
    /\ frames' = [frames EXCEPT ![Reader].acc = @ \o more, ![Reader].i = @ + 1]
    /\ UNCHANGED <<recruiter_availability, session_state, now, last, confirmed_for>>

\* The call returns what it collected.  history: the frame is kept.
Returns(pc) ==
    /\ frames[Reader].pc = pc
    /\ last' = [op |-> pc, ret |-> None, args |-> frames[Reader].args,
                found |-> frames[Reader].acc,
                path |-> <<>>, fetched |-> <<>>, out |-> <<>>]
    /\ frames' = [frames EXCEPT ![Reader].pc = "returned"]
    /\ UNCHANGED <<recruiter_availability, session_state, now, confirmed_for>>

\* get_available_slots: line 56 takes the list once, lines 56-58 walk it
GetAvailableSlotsBegin(start_date, end_date) ==
    Begins("get_available_slots", <<start_date, end_date>>, recruiter_availability)

GetAvailableSlotsStep ==
    LET f == frames[Reader]
    IN /\ f.i <= Len(f.held)
       /\ Iterates("get_available_slots",
                   IF InRange(f.held[f.i], f.args[1], f.args[2])
                   THEN <<f.held[f.i]>> ELSE <<>>)

GetAvailableSlotsReturn ==
    /\ frames[Reader].i > Len(frames[Reader].held)
    /\ Returns("get_available_slots")

\* find_intersection: the loop of line 75 walks the argument, and each of its
\* iterations takes the store's list anew at line 122.  An iteration is one
\* step here: the store it scans is the one bound when it starts.
FindIntersectionBegin(candidate_slots) ==
    Begins("find_intersection", candidate_slots, <<>>)

FindIntersectionStep ==
    LET f == frames[Reader]
    IN /\ f.i <= Len(f.args)
       /\ Iterates("find_intersection",
                   FindIntersection(<<f.args[f.i]>>, recruiter_availability))

FindIntersectionReturn ==
    /\ frames[Reader].i > Len(frames[Reader].args)
    /\ Returns("find_intersection")

\* The refresh in another thread, while the reader is in a call.  history:
\* last keeps the reader's calls only.
Replace(resp) ==
    LET mapped == IF Raises(resp) THEN <<>> ELSE MapSlots(resp)
        m == IF Raises(resp) THEN RefreshFailed(Here) ELSE RefreshRecruiterSlots(Here, resp)
        f == frames[Reader]
    IN /\ Reading
       /\ recruiter_availability' = m.av
       /\ session_state' = m.ss
       /\ UNCHANGED <<now, last, confirmed_for>>
       /\ frames' = [frames EXCEPT ![Reader] =
                        [f EXCEPT !.held = HeldAfterReplace(f.held, mapped),
                                  !.installed = IF mapped # <<>> THEN @ \cup {mapped}
                                                ELSE @]]

\* The stores the reader is started on hold free slots that can be read, as a
\* refresh leaves them; it queries from 09:00 to 10:00 or 11:00 of day 7, and
\* matches lists of 09:30 and 10:30
ReaderStores ==
    {av \in Stores : \A i \in 1..Len(av) : av[i].available /\ Parses(av[i].start)}

ReaderBounds ==
    {<<TS(At(7, 9, 0), 0, "bare"), TS(At(7, h, 0), 0, "Z")>> : h \in {10, 11}}

ReaderLists == SeqsUpTo({TS(At(7, 9, 30), 0, "Z"), TS(At(7, 10, 30), 0, "Z")}, MaxCandidates)

InitThreads ==
    /\ InitSlots
    /\ recruiter_availability \in ReaderStores

NextThreads ==
    \/ \E bounds \in ReaderBounds : GetAvailableSlotsBegin(bounds[1], bounds[2])
    \/ GetAvailableSlotsStep
    \/ GetAvailableSlotsReturn
    \/ \E candidate_slots \in ReaderLists : FindIntersectionBegin(candidate_slots)
    \/ FindIntersectionStep
    \/ FindIntersectionReturn
    \/ \E resp \in Responses : Replace(resp)

SpecThreads == InitThreads /\ [][NextThreads]_vars

(* ingest_email run by the server's pool threads, two requests at a time.   *)
(* Each tool call waits for the network (the model's answer at line 197, the *)
(* backend's at line 116), and other threads run while it waits; a request   *)
(* is taken here one tool call at a time.                                    *)

\* line 49: the slots read from this request's body are stored in the session
IngestParse(t, llm_slots) ==
    LET m == ParseCandidateResponseTool(Here, llm_slots)
    IN /\ frames[t].pc = "idle"
       /\ Outcome("parse_candidate_response", m.ret, m)
       /\ frames' = [frames EXCEPT ![t] =
                        Frame("parsed", llm_slots, <<>>, 0, m.ss.proposed_slots, <<>>, {})]
       /\ UNCHANGED confirmed_for

\* line 50: the matching reads the session's proposed slots
IngestEvaluate(t, resp) ==
    LET m == FindSlotIntersectionTool(Here, resp)
    IN /\ frames[t].pc = "parsed"
       /\ Outcome("find_slot_intersection", m.ret, m)
       /\ frames' = [frames EXCEPT ![t].pc = "evaluated"]
       /\ confirmed_for' = ConfirmedFor(m)

\* lines 52-64: the branch taken on the session's confirmed slot, and the answer
IngestAnswer(t) ==
    /\ frames[t].pc = "evaluated"
    /\ frames' = [frames EXCEPT ![t] = Idle]
    /\ UNCHANGED confirmed_for
    /\ IF IngestConfirmed(Here)
       THEN \E mailed, created \in CallResults :
                Outcome("ingest_email", "confirmed",
                        CreateCalendarEventTool(SendConfirmationEmailTool(Here, mailed),
                                                created))
       ELSE \E resp2 \in ServerResponses :
                Outcome("ingest_email", "no_intersection",
                        SendFollowUpEmailTool(Here, resp2, now))

NextRequests ==
    \E t \in Threads :
        \/ \E llm \in LlmOutputs : IngestParse(t, llm)
        \/ \E resp \in ServerResponses : IngestEvaluate(t, resp)
        \/ IngestAnswer(t)

SpecRequests == Init /\ [][NextRequests]_vars

----------------------------------------------------------------------------
(* The stages of the session state machine, by their names in the code *)

Created == "session_started"
Offered == "initial_email_sent"
ResponseReceived == "candidate_response_parsed"
Confirmed == "slot_confirmed"
Unmatched == "no_intersection"

Ran(op) == last.op = op

\* The run of the latest call assigned this stage at some point
Assigned(stage) == \E i \in 1..Len(last.path) : last.path[i] = stage

\* A confirmed slot as a caller sees it: the dict without the model's ix
Shown(confirmed_slot) == Detached(confirmed_slot)

SessionCore(ss) ==
    <<ss.current_stage, ss.proposed_slots, Shown(ss.confirmed_slot)>>

----------------------------------------------------------------------------
(* C1 *)

\* C1 (as claimed): when the Evaluate of an ingested response finds a best
\* match, the session is Confirmed with that match as its confirmed slot, and
\* the matched interval of the store is no longer free.
C1_EvaluateBooksTheMatch ==
    (Ran("ingest_email") /\ Assigned(Confirmed)) =>
        /\ session_state.current_stage = Confirmed
        /\ session_state.confirmed_slot # <<>>
        /\ session_state.confirmed_slot[1].ix # 0
        /\ ~recruiter_availability[session_state.confirmed_slot[1].ix].available

----------------------------------------------------------------------------
(* C2 *)

\* C2 (as claimed): two sessions (two candidates of the recruiter) are never
\* both confirmed on the same interval: of two Evaluates on one interval only
\* one confirms.
C2_OneConfirmationPerInterval ==
    \A c1, c2 \in Candidates :
        (c1 # c2 /\ confirmed_for[c1] # <<>>) => confirmed_for[c1] # confirmed_for[c2]

----------------------------------------------------------------------------
(* C3 *)

\* C3 (as claimed): find_slot_intersection called on a session that is in
\* Confirmed changes neither the stage, the proposed slots, the confirmed
\* slot nor the store.
C3_EvaluateOnConfirmedIsNoOp ==
    [][(last'.op = "find_slot_intersection" /\ session_state.current_stage = Confirmed)
          => /\ SessionCore(session_state') = SessionCore(session_state)
             /\ recruiter_availability' = recruiter_availability]_vars

----------------------------------------------------------------------------
(* C4 *)

\* C4 (as claimed): a response ingested while the session is in Confirmed is
\* answered with an invalid-transition error (neither "confirmed" nor
\* "no_intersection") and leaves stage, proposed slots and confirmed slot alone.
C4_ResponseOnConfirmedRejected ==
    [][(last'.op = "ingest_email" /\ session_state.current_stage = Confirmed)
          => /\ SessionCore(session_state') = SessionCore(session_state)
             /\ last'.ret \notin {"confirmed", "no_intersection"}]_vars

----------------------------------------------------------------------------
(* C5 *)

----------------------------------------------------------------------------
(* C6 *)

\* C6: a call whose refreshes all fetched no usable interval (an empty list, a
\* request error, a malformed body, only entries lacking a time) leaves the
\* store exactly as it was: the same intervals, in the same order, with the
\* same flags.
C6_EmptyRefreshKeepsStore ==
    [][(last'.fetched # <<>> /\ \A i \in 1..Len(last'.fetched) : last'.fetched[i] <= 0)
          => recruiter_availability' = recruiter_availability]_vars

\* An empty refresh has run on a store of two intervals that an earlier
\* refresh had put in place, one of them booked since
C6_EmptyRefreshAfterReplace ==
    /\ last.fetched = <<0>>
    /\ Len(recruiter_availability) = 2
    /\ recruiter_availability[1].start.fmt = "msZ"
    /\ \E i \in 1..2 : ~recruiter_availability[i].available

----------------------------------------------------------------------------
(* C7 *)

\* C7 (as claimed): an ingested response with no valid proposed slot ends
\* with the session in Unmatched.
C7_NoProposalsEndUnmatched ==
    (Ran("ingest_email") /\ session_state.proposed_slots = <<>>)
        => session_state.current_stage = Unmatched

----------------------------------------------------------------------------
(* C8 *)

\* C8 (as claimed): kickoff starts a session in Created that holds no
\* proposed slots and no confirmed slot.
C8_StartGivesFreshSession ==
    Ran("kickoff") =>
        /\ Head(last.path) = Created
        /\ session_state.proposed_slots = <<>>
        /\ session_state.confirmed_slot = <<>>

----------------------------------------------------------------------------
(* C9 *)

\* The latest call sent an offer that lists no slot
NothingToOffer ==
    \E i \in 1..Len(last.out) :
        last.out[i].kind = "initial_email" /\ last.out[i].slots = <<>>

\* C9 (as claimed): a kickoff that has no slot to offer sends no offer and
\* does not reach Offered.
C9_NoOfferWithoutAvailability ==
    Ran("kickoff") => (~NothingToOffer /\
                       (session_state.current_stage = Offered => last.out # <<>>))

----------------------------------------------------------------------------
(* C10 *)

TableEdges ==
    {<<Created, Offered>>, <<Offered, ResponseReceived>>,
     <<ResponseReceived, Confirmed>>, <<ResponseReceived, Unmatched>>,
     <<Unmatched, Offered>>}

\* Start may come in any stage
Edge(a, b) == a = b \/ b = Created \/ <<a, b>> \in TableEdges

FollowsTable(stages) ==
    \A i \in 1..(Len(stages) - 1) : Edge(stages[i], stages[i + 1])

\* C10 (as claimed): every stage a request assigns follows an edge of the
\* transition table from the stage before it.
C10_StagesFollowTable ==
    [][/\ last' # last => FollowsTable(<<session_state.current_stage>> \o last'.path)
       /\ last' = last => session_state'.current_stage = session_state.current_stage]_vars

----------------------------------------------------------------------------
(* C11 *)

\* The latest call sent a follow-up (the re-offer) that lists at least one slot
ReOffered ==
    \E i \in 1..Len(last.out) :
        last.out[i].kind = "follow_up_email" /\ last.out[i].slots # <<>>

\* C11 (as claimed): a request that ends Unmatched and sends the re-offer with
\* non-empty availability leaves the session in Offered.
C11_ReOfferMovesToOffered ==
    (Ran("ingest_email") /\ Assigned(Unmatched) /\ ReOffered)
        => session_state.current_stage = Offered

----------------------------------------------------------------------------
(* C12 *)

\* C12 (as claimed): a kickoff (Start) for another candidate than the one the
\* session is held for changes neither the stage, the proposed slots nor the
\* confirmed slot of the session held for the first candidate.
C12_OtherPairingUntouched ==
    [][(/\ last'.op = "kickoff"
        /\ session_state.candidate_email # None
        /\ session_state'.candidate_email # session_state.candidate_email)
          => SessionCore(session_state') = SessionCore(session_state)]_vars

----------------------------------------------------------------------------
(* C13 *)

\* The candidate slot reads as an instant that some free interval of the
\* store covers
FindsFreeInterval(c) ==
    /\ Parses(c)
    /\ \E i \in 1..Len(recruiter_availability) :
           Covers(recruiter_availability[i], Instant(c))

\* C13: get_best_match on the matches of a list of proposed slots returns the
\* match of the first proposed slot, in input order, that found a free
\* interval, whatever the times of the slots; it returns None when no
\* proposed slot found one; and for two different slots that both match,
\* the reversed list selects the other slot's match.
C13_BestIsFirstProposedMatch ==
    Ran("get_best_match") =>
        LET hits == {k \in 1..Len(last.args) : FindsFreeInterval(last.args[k])}
            first == CHOOSE k \in hits : \A j \in hits : k <= j
        IN /\ hits = {} => last.found = <<>>
           /\ hits # {} =>
                 /\ Len(last.found) = 1
                 /\ last.found[1].candidate_slot = last.args[first]
                 /\ \A k \in 1..(first - 1) : ~FindsFreeInterval(last.args[k])
           /\ (Len(last.args) = 2 /\ hits = {1, 2} /\ last.args[1] # last.args[2]) =>
                 LET reversed == <<last.args[2], last.args[1]>>
                     other == GetBestMatch(FindIntersection(reversed, recruiter_availability))
                 IN /\ other # <<>>
                    /\ other[1].candidate_slot = last.args[2]
                    /\ other[1].candidate_slot # last.found[1].candidate_slot

\* Two proposed slots matched different intervals, the later time was
\* proposed first, and its match was selected
C13_LaterSlotProposedFirst ==
    /\ Ran("get_best_match")
    /\ Len(last.args) = 2
    /\ FindsFreeInterval(last.args[1]) /\ FindsFreeInterval(last.args[2])
    /\ Instant(last.args[1]) > Instant(last.args[2])
    /\ last.found # <<>>
    /\ last.found[1].candidate_slot = last.args[1]
    /\ Instant(last.found[1].recruiter_slot.start) > Instant(last.args[2])

----------------------------------------------------------------------------
(* C14 *)

\* The interval is free and start <= p < end holds of its instants
FreeAround(interval, p) ==
    /\ interval.available
    /\ Parses(interval.start) /\ Parses(interval.end)
    /\ Instant(interval.start) <= p
    /\ p < Instant(interval.end)

\* C14: every match find_intersection returns pairs a proposed instant p with
\* the first interval in store order that is free and has start <= p < end
\* (no earlier interval of the store is such, and a booked interval is never
\* the match), and there is exactly one match for each proposed slot that
\* some free interval covers.
C14_MatchIsFirstFreeCover ==
    Ran("find_intersection") =>
        LET av == recruiter_availability
            covered == {k \in 1..Len(last.args) :
                          /\ Parses(last.args[k])
                          /\ \E i \in 1..Len(av) : FreeAround(av[i], Instant(last.args[k]))}
        IN /\ Len(last.found) = Cardinality(covered)
           /\ \A n \in 1..Len(last.found) :
                 LET match == last.found[n]
                     p == Instant(match.candidate_slot)
                 IN /\ match.ix \in 1..Len(av)
                    /\ match.recruiter_slot = av[match.ix]
                    /\ FreeAround(av[match.ix], p)
                    /\ \A j \in 1..(match.ix - 1) : ~FreeAround(av[j], p)

\* One proposed instant lies on the end of the first interval and was matched
\* to the second; another was matched to the first interval although the
\* second covers it too
C14_FirstHitAndExclusiveEnd ==
    /\ Ran("find_intersection")
    /\ Len(recruiter_availability) >= 2
    /\ \E n \in 1..Len(last.found) :
           /\ last.found[n].ix = 2
           /\ recruiter_availability[1].available
           /\ Parses(recruiter_availability[1].end)
           /\ Instant(recruiter_availability[1].end) = Instant(last.found[n].candidate_slot)
    /\ \E n \in 1..Len(last.found) :
           /\ last.found[n].ix = 1
           /\ FreeAround(recruiter_availability[2], Instant(last.found[n].candidate_slot))

----------------------------------------------------------------------------
(* C15 *)

\* C15: find_intersection drops a proposed slot it cannot parse and goes on
\* with the next: the matches it returns for a list are the matches it
\* returns for the same list with the unparseable entries removed.
C15_UnparseableEntriesDropped ==
    Ran("find_intersection") =>
        last.found = FindIntersection(SelectSeq(last.args, Parses), recruiter_availability)

\* A list whose first entry does not parse, and the slot after it was matched
C15_MatchAfterUnparseable ==
    /\ Ran("find_intersection")
    /\ Len(last.args) >= 2
    /\ ~Parses(last.args[1])
    /\ last.found # <<>>
    /\ last.found[1].candidate_slot = last.args[2]

----------------------------------------------------------------------------
(* C16 *)

\* What find_intersection matched the proposed slot c to: the interval (its
\* place in the store) and the start and end of the match
MatchesOf(c) ==
    {<<last.found[n].ix, last.found[n].intersection_start, last.found[n].intersection_end>> :
        n \in {k \in 1..Len(last.found) : last.found[k].candidate_slot = c}}

\* The same wall-clock time in two of the layouts Z, .000Z and bare
SameTimeOtherLayout(a, b) ==
    /\ a.fmt \in {"Z", "msZ", "bare"} /\ b.fmt \in {"Z", "msZ", "bare"}
    /\ a.w = b.w /\ a.off = b.off

\* C16: proposed slots that state the same wall-clock time in the Z layout,
\* the .000Z layout and the bare layout (read as UTC) are matched alike: none
\* of them is matched, or each is matched to the same interval with the same
\* offset-aware start and end; and proposed slots of one instant in any
\* layouts are matched to the same interval.
C16_LayoutsOfOneInstantMatchAlike ==
    Ran("find_intersection") =>
        \A k1, k2 \in 1..Len(last.args) :
            LET a == last.args[k1]
                b == last.args[k2]
            IN /\ SameTimeOtherLayout(a, b) => MatchesOf(a) = MatchesOf(b)
               /\ (Parses(a) /\ Parses(b) /\ Instant(a) = Instant(b)) =>
                     {t[1] : t \in MatchesOf(a)} = {t[1] : t \in MatchesOf(b)}
               /\ Cardinality(MatchesOf(a)) <= 1

\* The bare layout and the .000Z layout of one time were both matched
C16_BareAndMillisMatched ==
    /\ Ran("find_intersection")
    /\ Len(last.args) = 2
    /\ last.args[1].fmt = "bare" /\ last.args[2].fmt = "msZ"
    /\ last.args[1].w = last.args[2].w
    /\ Len(last.found) = 2
    /\ last.found[1].ix = last.found[2].ix

----------------------------------------------------------------------------
(* C17 *)

\* The interval is free and its start instant lies in [rangeStart, rangeEnd]
StartsWithin(interval, rangeStart, rangeEnd) ==
    /\ interval.available
    /\ Parses(interval.start)
    /\ Instant(rangeStart) <= Instant(interval.start)
    /\ Instant(interval.start) <= Instant(rangeEnd)

\* C17 (as claimed): get_available_slots(start, end) returns, in store order,
\* exactly the free intervals whose start instant lies within the two bounds
\* (both inclusive), whatever layouts the bounds and the starts are written in.
C17_QueryComparesInstants ==
    Ran("get_available_slots") =>
        LET Within(interval) == StartsWithin(interval, last.args[1], last.args[2])
        IN last.found = SelectSeq(recruiter_availability, Within)

----------------------------------------------------------------------------
(* C18 *)

\* C18 (as claimed): the calendar event a confirming request emits starts at
\* the start of the matched interval and ends at its end.
C18_EventCarriesTheInterval ==
    Ran("ingest_email") =>
        \A i \in 1..Len(last.out) :
            last.out[i].kind = "calendar_event" =>
                /\ session_state.confirmed_slot # <<>>
                /\ Instant(last.out[i].start) =
                       Instant(session_state.confirmed_slot[1].recruiter_slot.start)
                /\ Instant(last.out[i].end) =
                       Instant(session_state.confirmed_slot[1].recruiter_slot.end)

----------------------------------------------------------------------------
(* C19 *)

\* The latest call made a backend call that failed
CallFailed ==
    \E i \in 1..Len(last.out) : last.out[i].result = "error"

\* C19: when the calendar-event call or the confirmation email of a session in
\* Confirmed fails, the session is left as it was: the stage stays Confirmed
\* and the confirmed slot is unchanged.
C19_FailedCallKeepsConfirmed ==
    [][(/\ last'.op \in {"create_calendar_event", "send_confirmation_email"}
        /\ session_state.current_stage = Confirmed
        /\ \E i \in 1..Len(last'.out) : last'.out[i].result = "error")
          => /\ session_state'.current_stage = Confirmed
             /\ session_state'.confirmed_slot = session_state.confirmed_slot
             /\ session_state' = session_state]_vars

\* The calendar-event call of a confirmed session has failed
C19_CalendarCallFailed ==
    /\ Ran("create_calendar_event")
    /\ CallFailed
    /\ session_state.current_stage = Confirmed
    /\ session_state.confirmed_slot # <<>>

----------------------------------------------------------------------------
(* C20 *)

\* C20 (as claimed): reading the session (GET /status, get_session_state)
\* returns the current session and changes neither the session nor the
\* store; and whatever the caller then does with the snapshot it got leaves
\* the session and the store unchanged as well.
C20_StatusIsReadOnly ==
    [][(last'.op \in {"status", "get_session_state",
                      "snapshot_key_assigned", "snapshot_list_cleared"})
          => /\ session_state' = session_state
             /\ recruiter_availability' = recruiter_availability
             /\ last'.op = "get_session_state" => last'.found = <<session_state>>]_vars

----------------------------------------------------------------------------
(* C22 *)

\* C22: the default availability built on day `today` has, for each day of
\* [today, today + WindowDays) that is no Saturday or Sunday and each hour of
\* [StartHour, EndHour), exactly one interval starting at that hour and
\* ending SlotMinutes later, and nothing else: every interval is free, starts
\* before it ends, and none lies on a Saturday or Sunday.
C22_SeedCoversWeekdayHours ==
    Ran("construct") =>
        LET av == recruiter_availability
            today == last.args[1]
            days == {d \in today..(today + WindowDays - 1) : d % 7 \notin {5, 6}}
        IN /\ \A d \in days, h \in StartHour..(EndHour - 1) :
                 Cardinality({i \in 1..Len(av) :
                     /\ av[i].start.w = d * Day + h * Hour
                     /\ av[i].end.w = d * Day + h * Hour + SlotMinutes}) = 1
           /\ Len(av) = Cardinality(days) * (EndHour - StartHour)
           /\ \A i \in 1..Len(av) :
                 /\ av[i].available
                 /\ Instant(av[i].start) < Instant(av[i].end)
                 /\ (av[i].start.w \div Day) \in days
                 /\ av[i].duration = SlotMinutes

\* A store built on a Saturday, at some hour of the afternoon
C22_BuiltOnSaturday ==
    /\ Ran("construct")
    /\ last.args[1] % 7 = 5
    /\ now % Day >= 12 * Hour
    /\ recruiter_availability # <<>>

----------------------------------------------------------------------------
(* C23 *)

\* C23: mark_slot_booked(start, end) changes at most the free flag of the
\* first interval in store order whose start and end equal the arguments,
\* also when several intervals have that pair; every other interval and the
\* order of the store stay as they were; with no such interval the store is
\* unchanged.
C23_BookingTouchesOneInterval ==
    [][last'.op = "mark_slot_booked" =>
          LET av == recruiter_availability
              hits == {i \in 1..Len(av) :
                          av[i].start = last'.args[1] /\ av[i].end = last'.args[2]}
          IN /\ Len(recruiter_availability') = Len(av)
             /\ hits = {} => recruiter_availability' = av
             /\ \A i \in 1..Len(av) :
                   IF i \in hits /\ \A j \in hits : i <= j
                   THEN recruiter_availability'[i] = [av[i] EXCEPT !.available = FALSE]
                   ELSE recruiter_availability'[i] = av[i]]_vars

\* Two free intervals had the booked pair: the first is booked, the second
\* is still free
C23_SecondOfTwoStaysFree ==
    /\ Ran("mark_slot_booked")
    /\ Len(recruiter_availability) = 2
    /\ \A i \in 1..2 : /\ recruiter_availability[i].start = last.args[1]
                       /\ recruiter_availability[i].end = last.args[2]
    /\ last.found # <<>> /\ last.found[1].available
    /\ ~recruiter_availability[1].available
    /\ recruiter_availability[2].available

----------------------------------------------------------------------------
(* C24 *)

\* The entries of the answer that have both a start and an end, in order
UsableEntries(resp) ==
    LET Usable(e) == e.startTime # Missing /\ e.endTime # Missing
    IN IF resp.kind = "ok" THEN SelectSeq(resp.slots, Usable) ELSE <<>>

\* C24: a refresh whose answer has N > 0 entries with both a start and an end
\* leaves the store holding exactly those N intervals, in the order of the
\* answer, each free and of the requested duration; entries lacking a start
\* or an end are skipped and nothing of the previous store remains.
C24_RefreshReplacesWholesale ==
    [][(last'.op = "refresh_recruiter_slots" /\ UsableEntries(last'.args[1]) # <<>>) =>
          LET usable == UsableEntries(last'.args[1])
          IN /\ Len(recruiter_availability') = Len(usable)
             /\ \A i \in 1..Len(usable) :
                   recruiter_availability'[i] =
                       [start |-> usable[i].startTime, end |-> usable[i].endTime,
                        available |-> TRUE, duration |-> RefreshDuration]
             /\ last'.found = recruiter_availability']_vars

\* An answer of two entries, one without its end, replaced a store of two
\* intervals by the one usable interval
C24_RefreshSkippedAnEntry ==
    /\ Ran("refresh_recruiter_slots")
    /\ Len(last.args[1].slots) = 2
    /\ last.fetched = <<1>>
    /\ Len(recruiter_availability) = 1
    /\ recruiter_availability[1].start.fmt = "msZ"

----------------------------------------------------------------------------
(* C25 *)

\* C25: find_intersection returns at most one match per proposed slot, the
\* matches follow the input order of the proposed slots that found a free
\* interval, and each match holds the first free interval covering its slot,
\* whether or not an earlier match already holds that interval.
C25_OneMatchPerSlotInInputOrder ==
    Ran("find_intersection") =>
        LET matched == SelectSeq(last.args, FindsFreeInterval)
        IN /\ Len(last.found) <= Len(last.args)
           /\ Len(last.found) = Len(matched)
           /\ \A k \in 1..Len(matched) :
                 /\ last.found[k].candidate_slot = matched[k]
                 /\ last.found[k].ix = FirstFit(recruiter_availability, Instant(matched[k]))

\* Two different proposed slots were matched to the same interval
C25_TwoSlotsShareAnInterval ==
    /\ Ran("find_intersection")
    /\ Len(last.found) = 2
    /\ last.found[1].ix = last.found[2].ix
    /\ Instant(last.found[1].candidate_slot) # Instant(last.found[2].candidate_slot)

----------------------------------------------------------------------------
(* C26 *)

\* C26 (as claimed): in every state the session holds a confirmed slot if and
\* only if its stage is Confirmed.
C26_ConfirmedSlotIffConfirmed ==
    (session_state.confirmed_slot # <<>>) <=> (session_state.current_stage = Confirmed)

----------------------------------------------------------------------------
(* C27 *)

\* The latest call emitted a backend call of this kind
Emitted(kind) == \E i \in 1..Len(last.out) : last.out[i].kind = kind

\* C27 (as claimed): an ingested response is answered "confirmed", with the
\* confirmation email and the calendar event, only when the matching of that
\* same request found a match; otherwise it is answered "no_intersection" and
\* emits neither of the two (the follow-up email is all it may send).
C27_AnswerFollowsOwnEvaluate ==
    Ran("ingest_email") =>
        IF Assigned(Confirmed)
        THEN last.ret = "confirmed"
        ELSE /\ last.ret = "no_intersection"
             /\ ~Emitted("confirmation_email")
             /\ ~Emitted("calendar_event")

----------------------------------------------------------------------------
(* C29 *)

\* C29 (as claimed): an interval that is booked is not selected as a match by
\* a later find_slot_intersection, whatever its refresh fetched: the slot it
\* confirms has the (start, end) of no interval that was booked before the call.
C29_BookedIntervalNotMatchedAgain ==
    [][(last'.op = "find_slot_intersection" /\ last'.ret = "found") =>
          LET matched == session_state'.confirmed_slot[1].recruiter_slot
          IN \A i \in 1..Len(recruiter_availability) :
                ~recruiter_availability[i].available =>
                    ~(/\ recruiter_availability[i].start = matched.start
                      /\ recruiter_availability[i].end = matched.end)]_vars

----------------------------------------------------------------------------
(* C21 *)

\* The stores the reader's finished call may have seen: the one bound when it
\* began and those a refresh bound while it ran
SeenBy(f) == {f.began} \cup f.installed

\* C21: get_available_slots running while another thread's refresh replaces
\* the store answers with the whole of one set: its answer is the answer on
\* the store as the call found it, or the answer on one of the stores bound
\* while it ran, never slots of two of them.
C21_QuerySeesOneWholeSet ==
    (Ran("get_available_slots") /\ frames[Reader].pc = "returned") =>
        \E av \in SeenBy(frames[Reader]) :
            last.found = GetAvailableSlotsBetween(av, last.args[1], last.args[2])

\* A refresh bound another store while the query ran, and the query answered
\* the two slots of the old store, which no store bound meanwhile would give
C21_ReplacedMidQuery ==
    /\ Ran("get_available_slots") /\ frames[Reader].pc = "returned"
    /\ frames[Reader].installed # {}
    /\ Len(last.found) = 2
    /\ last.found = GetAvailableSlotsBetween(frames[Reader].began, last.args[1], last.args[2])
    /\ \A av \in frames[Reader].installed :
           /\ GetAvailableSlotsBetween(av, last.args[1], last.args[2]) # <<>>
           /\ GetAvailableSlotsBetween(av, last.args[1], last.args[2]) # last.found

----------------------------------------------------------------------------
(* C30 *)

\* C30 (as claimed): find_intersection running while another thread's refresh
\* replaces the store returns matches that all refer to intervals of one set:
\* the store as the call found it, or one store bound while it ran.
C30_MatchesFromOneSet ==
    (Ran("find_intersection") /\ frames[Reader].pc = "returned") =>
        \E av \in SeenBy(frames[Reader]) :
            \A k \in 1..Len(last.found) :
                /\ last.found[k].ix <= Len(av)
                /\ av[last.found[k].ix] = last.found[k].recruiter_slot

----------------------------------------------------------------------------
(* C28 *)

\* C28 (as claimed): with two ingestEmail requests running at once, the
\* matching of a request works on the proposed slots read from that request's
\* own body: the slot it confirms is one of them, it reports no proposed slot
\* only when the body had none, and it reports no match only when none of
\* them falls in a free interval.
C28_EvaluateUsesOwnProposal ==
    [][\A t \in Threads :
          (frames[t].pc = "parsed" /\ frames'[t].pc = "evaluated") =>
              LET own == frames[t].acc
              IN /\ last'.ret = "found" =>
                        \E k \in 1..Len(own) :
                            session_state'.confirmed_slot[1].candidate_slot = own[k]
                 /\ last'.ret = "no_candidate_slots" => own = <<>>
                 /\ last'.ret = "no_matching_slots" =>
                        FindIntersection(own, recruiter_availability') = <<>>]_vars

----------------------------------------------------------------------------
(* C31 *)

\* C31: the store holds at least one interval in every state: the default
\* availability built on any day is not empty, a refresh that fetched no
\* usable interval leaves the store alone, and a booking removes nothing.
C31_StoreNeverEmpty ==
    recruiter_availability # <<>>

\* A refresh that fetched nothing came after a refresh left one interval and
\* a booking took it: the store still holds that one interval, booked
C31_LastIntervalBookedThenEmptyRefresh ==
    /\ Ran("refresh_recruiter_slots")
    /\ last.fetched = <<0>>
    /\ Len(recruiter_availability) = 1
    /\ ~recruiter_availability[1].available

----------------------------------------------------------------------------
(* C32 *)

\* C32: find_intersection and get_best_match change nothing: after either
\* call, on any list of proposed slots, the store holds the same intervals
\* with the same flags in the same order, and the session state is as it was.
C32_MatchingIsReadOnly ==
    [][last'.op \in {"find_intersection", "get_best_match"} =>
          /\ recruiter_availability' = recruiter_availability
          /\ session_state' = session_state]_vars

\* get_best_match returned a match, and the interval it matched is still free
C32_BestMatchLeftIntervalFree ==
    /\ Ran("get_best_match")
    /\ last.found # <<>>
    /\ recruiter_availability[last.found[1].ix].available
    /\ recruiter_availability[last.found[1].ix] = last.found[1].recruiter_slot

====
